---- MODULE Spec2Model ----
(***************************************************************************)
(* Model of the MongoDB demonstration script: connection.py (the shared    *)
(* collection handle) and main_app.py (one procedure per store action and  *)
(* the fixed sequence of main).  The collection is a sequence of documents *)
(* in insertion order; a document is a function from field names to       *)
(* values; every procedure forwards to one driver call and prints what the *)
(* driver returns.                                                         *)
(***************************************************************************)
EXTENDS Integers, Sequences, FiniteSets, TLC

VARIABLES
    collection,  \* the documents of my_first_collection, in store-native order
    nextId,      \* the identifier the driver generates next
    created,     \* the database and the collection exist in the store
    call,        \* the procedure last called, with its arguments
    out,         \* what that call printed, or the error it raised
    pc,          \* "idle" for a caller of the module, else the statement of main
    up,          \* the endpoint localhost:27017 is reachable
    coll0,       \* the collection when the process started
    runs         \* how many times the script has been started

vars == <<collection, nextId, created, call, out, pc, up, coll0, runs>>

\* Bounds of the model.
MaxDocs == 3
MaxId == 3
MaxBatch == 2
MaxPrior == 2
MaxRuns == 2

(***************************************************************************)
(* Documents, queries and values.                                          *)
(***************************************************************************)
Doc(name, address) == ("name" :> name) @@ ("address" :> address)

\* What find_one yields when nothing matches (Python's None).
None == ("$none" :> "None")

Raise(error) == [kind |-> "raise", error |-> error]

\* insert_one / insert_many give a document an _id when it carries none.
WithId_DropFields(data, id) == ("_id" :> id)

WithId(data, id) == IF "_id" \in DOMAIN data THEN data ELSE ("_id" :> id) @@ data

\* A query is a mapping field -> value; the empty mapping matches everything.
Matches(doc, query) == \A f \in DOMAIN query : f \in DOMAIN doc /\ doc[f] = query[f]

MatchIndexes(coll, query) == {i \in 1..Len(coll) : Matches(coll[i], query)}

\* Index of the first match in store-native order, 0 when there is none.
FirstMatch(coll, query) ==
    LET S == MatchIndexes(coll, query)
    IN  IF S = {} THEN 0 ELSE CHOOSE i \in S : \A j \in S : i <= j

FindOne(coll, query) ==
    IF FirstMatch(coll, query) = 0 THEN None ELSE coll[FirstMatch(coll, query)]

Find(coll, query) == SelectSeq(coll, LAMBDA d : Matches(d, query))

RemoveAt(coll, i) == SubSeq(coll, 1, i - 1) \o SubSeq(coll, i + 1, Len(coll))

\* The unique index on _id.
DuplicateKey(coll, doc) == \E i \in 1..Len(coll) : coll[i]["_id"] = doc["_id"]

(***************************************************************************)
(* Driver calls on the collection.                                         *)
(***************************************************************************)
DeleteOne_Many(coll, query) == SelectSeq(coll, LAMBDA d : ~Matches(d, query))

DeleteOne_None(coll, query) == coll

\* delete_one: the first match is removed.
DeleteOne(coll, query) ==
    IF FirstMatch(coll, query) = 0 THEN coll ELSE RemoveAt(coll, FirstMatch(coll, query))

ApplySet_NoOp(doc, fields) == doc

\* {"$set": fields}: the given fields are written, the others kept.
ApplySet(doc, fields) == fields @@ doc

\* pymongo accepts an update only when it is written with $ operators.
IsOperatorUpdate(new_values) ==
    /\ DOMAIN new_values # {}
    /\ \A k \in DOMAIN new_values : k = "$set"

UpdateOne_Many(coll, query, new_values) ==
    [i \in 1..Len(coll) |->
        IF Matches(coll[i], query) THEN ApplySet(coll[i], new_values["$set"]) ELSE coll[i]]

\* update_one: the first match is updated.
UpdateOne(coll, query, new_values) ==
    [i \in 1..Len(coll) |->
        IF i = FirstMatch(coll, query) THEN ApplySet(coll[i], new_values["$set"]) ELSE coll[i]]

\* Binary order of the strings the model uses.
StrOrder ==
    <<"Amy", "Apple st 652", "Ben", "Betty", "Canyon 123", "Central road 954",
      "Chuck", "Green Grass 1", "Hannah", "Highway 37", "John", "Main Road 989",
      "Michael", "Mountain 21", "Ocean blue 2", "One way 98", "Park Lane 38",
      "Richard", "Sandy", "Side way 1633", "Sky red 331", "Susan", "Valley 345",
      "Vicky", "Viola", "William", "Yellow Garden 2">>

StrRank(s) == CHOOSE i \in 1..Len(StrOrder) : StrOrder[i] = s

\* The sort key of a document: a missing field sorts as null, below numbers,
\* which sort below strings.
SortKey(doc, field_name) ==
    IF field_name \notin DOMAIN doc THEN <<1, 0>>
    ELSE IF field_name = "_id" THEN <<2, doc[field_name]>>
    ELSE <<3, StrRank(doc[field_name])>>

KeyLess(a, b) == a[1] < b[1] \/ (a[1] = b[1] /\ a[2] < b[2])

ComesBefore_Ascending(d1, d2, field_name, order) ==
    KeyLess(SortKey(d1, field_name), SortKey(d2, field_name))

\* d1 must precede d2 under sort(field_name, order).
ComesBefore(d1, d2, field_name, order) ==
    IF order = 1
    THEN KeyLess(SortKey(d1, field_name), SortKey(d2, field_name))
    ELSE KeyLess(SortKey(d2, field_name), SortKey(d1, field_name))

InsertSorted(sorted, d, field_name, order) ==
    LET p == Cardinality({i \in 1..Len(sorted) :
                            ~ComesBefore(d, sorted[i], field_name, order)})
    IN  SubSeq(sorted, 1, p) \o <<d>> \o SubSeq(sorted, p + 1, Len(sorted))

RECURSIVE SortDocs(_, _, _)
\* find().sort(field_name, order)
SortDocs(coll, field_name, order) ==
    IF coll = <<>> THEN <<>>
    ELSE InsertSorted(SortDocs(SubSeq(coll, 1, Len(coll) - 1), field_name, order),
                      coll[Len(coll)], field_name, order)

Abs(n) == IF n < 0 THEN -n ELSE n

Min(a, b) == IF a <= b THEN a ELSE b

\* find().limit(limit): 0 is "no limit", a negative limit is its absolute
\* value served as a single batch.
LimitDocs(coll, limit) ==
    IF limit = 0 THEN coll ELSE SubSeq(coll, 1, Min(Abs(limit), Len(coll)))

RECURSIVE AssignIds(_, _)
\* insert_many gives every document of the batch its _id before sending.
AssignIds(data_list, id) ==
    IF data_list = <<>> THEN <<>>
    ELSE IF "_id" \in DOMAIN data_list[1]
         THEN <<data_list[1]>> \o AssignIds(Tail(data_list), id)
         ELSE <<WithId(data_list[1], id)>> \o AssignIds(Tail(data_list), id + 1)

Generated(data_list) ==
    Cardinality({i \in 1..Len(data_list) : "_id" \notin DOMAIN data_list[i]})

RECURSIVE InsertedPrefix(_, _)
\* An ordered bulk insert stops at the first duplicate key.
InsertedPrefix(coll, docs) ==
    IF docs = <<>> \/ DuplicateKey(coll, docs[1]) THEN <<>>
    ELSE <<docs[1]>> \o InsertedPrefix(Append(coll, docs[1]), Tail(docs))

InsertedIds_Reversed(docs) == [i \in 1..Len(docs) |-> docs[Len(docs) + 1 - i]["_id"]]

InsertedIds(docs) == [i \in 1..Len(docs) |-> docs[i]["_id"]]

(***************************************************************************)
(* The procedures of main_app.py.  Each sets the store, what was called    *)
(* and what was printed (or raised).                                       *)
(***************************************************************************)
check_database_exists(db_name) ==
    /\ call' = [op |-> "check_database_exists", db_name |-> db_name]
    /\ out' = [kind |-> "exists",
               exists |-> (created /\ db_name = "my_first_database")]
    /\ UNCHANGED <<collection, nextId, created>>

check_collection_exists(collection_name) ==
    /\ call' = [op |-> "check_collection_exists", collection_name |-> collection_name]
    /\ out' = [kind |-> "exists",
               exists |-> (created /\ collection_name = "my_first_collection")]
    /\ UNCHANGED <<collection, nextId, created>>

insert_single_document(data) ==
    LET doc == WithId(data, nextId)
    IN  /\ call' = [op |-> "insert_single_document", data |-> data]
        /\ nextId' = IF "_id" \in DOMAIN data THEN nextId ELSE nextId + 1
        /\ IF DuplicateKey(collection, doc)
           THEN /\ out' = Raise("DuplicateKeyError")
                /\ UNCHANGED <<collection, created>>
           ELSE /\ collection' = Append(collection, doc)
                /\ created' = TRUE
                /\ out' = [kind |-> "inserted_id", inserted_id |-> doc["_id"]]

insert_multiple_documents(data_list) ==
    LET docs == AssignIds(data_list, nextId)
        done == InsertedPrefix(collection, docs)
    IN  /\ call' = [op |-> "insert_multiple_documents", data_list |-> data_list]
        /\ IF data_list = <<>>
           THEN /\ out' = Raise("TypeError")
                /\ UNCHANGED <<collection, nextId, created>>
           ELSE /\ nextId' = nextId + Generated(data_list)
                /\ collection' = collection \o done
                /\ created' = (created \/ done # <<>>)
                /\ out' = IF Len(done) < Len(docs)
                          THEN Raise("BulkWriteError")
                          ELSE [kind |-> "inserted_ids", inserted_ids |-> InsertedIds(docs)]

find_one_document(query) ==
    /\ call' = [op |-> "find_one_document", query |-> query]
    /\ out' = [kind |-> "result", result |-> FindOne(collection, query)]
    /\ UNCHANGED <<collection, nextId, created>>

find_all_documents ==
    /\ call' = [op |-> "find_all_documents"]
    /\ out' = [kind |-> "docs", docs |-> collection]
    /\ UNCHANGED <<collection, nextId, created>>

find_documents_with_condition(query) ==
    /\ call' = [op |-> "find_documents_with_condition", query |-> query]
    /\ out' = [kind |-> "docs", docs |-> Find(collection, query)]
    /\ UNCHANGED <<collection, nextId, created>>

sort_documents_by_field(field_name, order) ==
    /\ call' = [op |-> "sort_documents_by_field", field_name |-> field_name, order |-> order]
    /\ out' = [kind |-> "docs", docs |-> SortDocs(collection, field_name, order)]
    /\ UNCHANGED <<collection, nextId, created>>

update_document(query, new_values) ==
    /\ call' = [op |-> "update_document", query |-> query, new_values |-> new_values]
    /\ IF ~IsOperatorUpdate(new_values)
       THEN /\ out' = Raise("ValueError")
            /\ UNCHANGED <<collection, nextId, created>>
       ELSE /\ collection' = UpdateOne(collection, query, new_values)
            /\ out' = [kind |-> "modified_count",
                       modified_count |-> IF collection' # collection THEN 1 ELSE 0]
            /\ UNCHANGED <<nextId, created>>

delete_document(query) ==
    /\ call' = [op |-> "delete_document", query |-> query]
    /\ collection' = DeleteOne(collection, query)
    /\ out' = [kind |-> "deleted_count",
               deleted_count |-> Len(collection) - Len(collection')]
    /\ UNCHANGED <<nextId, created>>

limit_results(limit) ==
    /\ call' = [op |-> "limit_results", limit |-> limit]
    /\ out' = [kind |-> "docs", docs |-> LimitDocs(collection, limit)]
    /\ UNCHANGED <<collection, nextId, created>>

(***************************************************************************)
(* Spec: a caller of the module that invokes the procedures one at a time, *)
(* in any order, with arguments from small sets, against a store that      *)
(* starts empty.                                                           *)
(***************************************************************************)
InsertDocs ==
    {Doc("John", "Highway 37"), Doc("Amy", "Highway 37"), ("name" :> "John"),
     ("_id" :> 101) @@ Doc("Amy", "Canyon 123")}

Batches == {<<>>} \cup UNION {[1..n -> InsertDocs] : n \in 1..MaxBatch}

EmptyQuery == [f \in {} |-> "none"]

Queries ==
    {EmptyQuery, ("name" :> "John"), ("address" :> "Highway 37"), ("_id" :> 1)}

SetUpdates ==
    {("$set" :> ("address" :> "Canyon 123")), ("$set" :> ("name" :> "Amy"))}

PlainUpdates == {("address" :> "Canyon 123")}

SortFields == {"name", "address"}

Limits == (-1)..MaxDocs

Idle == pc = "idle" /\ UNCHANGED <<pc, up, coll0, runs>>

Init ==
    /\ collection = <<>>
    /\ nextId = 1
    /\ created = FALSE
    /\ call = [op |-> "none"]
    /\ out = [kind |-> "none"]
    /\ pc = "idle"
    /\ up = TRUE
    /\ coll0 = <<>>
    /\ runs = 0

CallCheckDatabase ==
    /\ Idle
    /\ \E n \in {"my_first_database", "other_database"} : check_database_exists(n)

CallCheckCollection ==
    /\ Idle
    /\ \E n \in {"my_first_collection", "other_collection"} : check_collection_exists(n)

CallInsertSingle ==
    /\ Idle
    /\ Len(collection) < MaxDocs
    /\ nextId <= MaxId
    /\ \E d \in InsertDocs : insert_single_document(d)

CallInsertMultiple ==
    /\ Idle
    /\ \E b \in Batches :
        /\ Len(collection) + Len(b) <= MaxDocs
        /\ nextId + Len(b) <= MaxId + 1
        /\ insert_multiple_documents(b)

CallFindOne == Idle /\ \E q \in Queries : find_one_document(q)

CallFindAll == Idle /\ find_all_documents

CallFindWithCondition == Idle /\ \E q \in Queries : find_documents_with_condition(q)

CallSort ==
    /\ Idle
    /\ \E f \in SortFields, o \in {1, -1} : sort_documents_by_field(f, o)

CallUpdate ==
    /\ Idle
    /\ \E q \in Queries, u \in SetUpdates \cup PlainUpdates : update_document(q, u)

CallDelete == Idle /\ \E q \in Queries : delete_document(q)

CallLimit == Idle /\ \E n \in Limits : limit_results(n)

Next ==
    \/ CallCheckDatabase
    \/ CallCheckCollection
    \/ CallInsertSingle
    \/ CallInsertMultiple
    \/ CallFindOne
    \/ CallFindAll
    \/ CallFindWithCondition
    \/ CallSort
    \/ CallUpdate
    \/ CallDelete
    \/ CallLimit

Spec == Init /\ [][Next]_vars

(***************************************************************************)
(* MainSpec: the script as a process.  Importing connection.py builds the  *)
(* handle, then main runs its fixed sequence; an uncaught error aborts the *)
(* process.  The store outlives the process: it starts with whatever       *)
(* earlier callers left in it, and the script may be started again.        *)
(***************************************************************************)
HandleAcquired_Eager(endpoint_up) == endpoint_up

\* MongoClient(...) and the [] lookups open no connection.
HandleAcquired(endpoint_up) == TRUE

JohnDoc == Doc("John", "Highway 37")

BatchDocs ==
    <<Doc("Amy", "Apple st 652"), Doc("Hannah", "Mountain 21"),
      Doc("Michael", "Valley 345"), Doc("Sandy", "Ocean blue 2"),
      Doc("Betty", "Green Grass 1"), Doc("Richard", "Sky red 331"),
      Doc("Susan", "One way 98"), Doc("Vicky", "Yellow Garden 2"),
      Doc("Ben", "Park Lane 38"), Doc("William", "Central road 954"),
      Doc("Chuck", "Main Road 989"), Doc("Viola", "Side way 1633")>>

JohnQuery == ("name" :> "John")

PriorDocs ==
    {Doc("John", "Highway 37"), Doc("John", "Canyon 123"), Doc("Amy", "Apple st 652")}

PriorCollections == UNION {[1..n -> PriorDocs] : n \in 0..MaxPrior}

MainInit ==
    /\ \E c \in PriorCollections :
        /\ collection = AssignIds(c, 1)
        /\ nextId = Len(c) + 1
        /\ created \in (IF Len(c) = 0 THEN BOOLEAN ELSE {TRUE})
    /\ call = [op |-> "none"]
    /\ out = [kind |-> "none"]
    /\ pc = "connect"
    /\ up \in BOOLEAN
    /\ coll0 = collection
    /\ runs = 1

\* The statement main is at and the statement after it.
MainSteps ==
    <<"check_db_1", "check_coll_1", "insert_single", "insert_multiple", "find_one",
      "find_all", "find_condition", "sort", "update", "delete", "limit",
      "check_db_2", "check_coll_2", "done">>

StepOp ==
    <<"check_database_exists", "check_collection_exists", "insert_single_document",
      "insert_multiple_documents", "find_one_document", "find_all_documents",
      "find_documents_with_condition", "sort_documents_by_field", "update_document",
      "delete_document", "limit_results", "check_database_exists",
      "check_collection_exists", "none">>

StepIndex(at) == CHOOSE i \in 1..Len(MainSteps) : MainSteps[i] = at

\* main is at this statement and the endpoint is reachable.
At(at) == pc = at /\ up

\* The statement has run: main goes on unless it raised.
Proceed(at) ==
    /\ pc' = IF out'.kind = "raise" THEN "aborted" ELSE MainSteps[StepIndex(at) + 1]
    /\ UNCHANGED <<up, coll0, runs>>

Connect ==
    /\ pc = "connect"
    /\ call' = [op |-> "connect"]
    /\ IF HandleAcquired(up)
       THEN pc' = "check_db_1" /\ out' = [kind |-> "handle"]
       ELSE pc' = "aborted" /\ out' = Raise("ServerSelectionTimeoutError")
    /\ UNCHANGED <<collection, nextId, created, up, coll0, runs>>

\* Any driver call against an unreachable endpoint raises; nothing catches it.
Unreachable ==
    /\ pc \in {MainSteps[i] : i \in 1..(Len(MainSteps) - 1)}
    /\ ~up
    /\ call' = [op |-> StepOp[StepIndex(pc)]]
    /\ out' = Raise("ServerSelectionTimeoutError")
    /\ pc' = "aborted"
    /\ UNCHANGED <<collection, nextId, created, up, coll0, runs>>

MainCheckDatabase1 == At("check_db_1") /\ check_database_exists("my_first_database") /\ Proceed("check_db_1")

MainCheckCollection1 ==
    At("check_coll_1") /\ check_collection_exists("my_first_collection") /\ Proceed("check_coll_1")

MainInsertSingle == At("insert_single") /\ insert_single_document(JohnDoc) /\ Proceed("insert_single")

MainInsertMultiple == At("insert_multiple") /\ insert_multiple_documents(BatchDocs) /\ Proceed("insert_multiple")

MainFindOne == At("find_one") /\ find_one_document(JohnQuery) /\ Proceed("find_one")

MainFindAll == At("find_all") /\ find_all_documents /\ Proceed("find_all")

MainFindWithCondition ==
    At("find_condition") /\ find_documents_with_condition(("address" :> "Highway 37")) /\ Proceed("find_condition")

MainSort == At("sort") /\ sort_documents_by_field("name", 1) /\ Proceed("sort")

MainUpdate ==
    At("update") /\ update_document(JohnQuery, ("$set" :> ("address" :> "Canyon 123"))) /\ Proceed("update")

MainDelete == At("delete") /\ delete_document(JohnQuery) /\ Proceed("delete")

MainLimit == At("limit") /\ limit_results(5) /\ Proceed("limit")

MainCheckDatabase2 == At("check_db_2") /\ check_database_exists("my_first_database") /\ Proceed("check_db_2")

MainCheckCollection2 ==
    At("check_coll_2") /\ check_collection_exists("my_first_collection") /\ Proceed("check_coll_2")

\* The script is started again on the store the last process left.
Restart ==
    /\ pc \in {"done", "aborted"}
    /\ runs < MaxRuns
    /\ pc' = "connect"
    /\ runs' = runs + 1
    /\ up' \in BOOLEAN
    /\ coll0' = collection
    /\ call' = [op |-> "none"]
    /\ out' = [kind |-> "none"]
    /\ UNCHANGED <<collection, nextId, created>>

MainNext ==
    \/ Connect
    \/ Unreachable
    \/ MainCheckDatabase1
    \/ MainCheckCollection1
    \/ MainInsertSingle
    \/ MainInsertMultiple
    \/ MainFindOne
    \/ MainFindAll
    \/ MainFindWithCondition
    \/ MainSort
    \/ MainUpdate
    \/ MainDelete
    \/ MainLimit
    \/ MainCheckDatabase2
    \/ MainCheckCollection2
    \/ Restart

MainSpec == MainInit /\ [][MainNext]_vars

(***************************************************************************)
(* The claims.                                                             *)
(***************************************************************************)
MatchCount(coll, query) == Cardinality(MatchIndexes(coll, query))

\* The fields and values of data, plus the identifier id.
IsStored(doc, data, id) ==
    /\ DOMAIN doc = DOMAIN data \cup {"_id"}
    /\ doc["_id"] = id
    /\ \A f \in DOMAIN data \ {"_id"} : doc[f] = data[f]

\* C1: delete_document(query) removes exactly one document when two or more
\* match (every other document, the remaining matches included, stays, in
\* order) and reports a deleted count of 1; when nothing matches it reports 0
\* and the collection is unchanged.
C1_DeleteRemovesExactlyOne ==
    [][call'.op = "delete_document" =>
        LET q == call'.query
            n == MatchCount(collection, q)
        IN  /\ n >= 2 =>
                /\ out'.deleted_count = 1
                /\ \E i \in 1..Len(collection) :
                    /\ Matches(collection[i], q)
                    /\ collection' = [j \in 1..(Len(collection) - 1) |->
                                        IF j < i THEN collection[j] ELSE collection[j + 1]]
            /\ n = 0 => (out'.deleted_count = 0 /\ collection' = collection)]_vars

C1_Witness ==
    /\ call.op = "delete_document"
    /\ out.deleted_count = 1
    /\ \E i, j \in 1..Len(collection) :
        Matches(collection[i], call.query) /\ ~Matches(collection[j], call.query)

\* C2: after update_document(query, {"$set": fields}) with a query that matches
\* a document, fetching that document again by its identifier shows the new
\* values of the fields; when no document matches, zero modified is reported.
C2_UpdateThenRefetch ==
    [][(call'.op = "update_document" /\ IsOperatorUpdate(call'.new_values)) =>
        LET q == call'.query
            s == call'.new_values["$set"]
        IN  IF MatchCount(collection, q) = 0
            THEN out'.kind = "modified_count" /\ out'.modified_count = 0
            ELSE \E i \in MatchIndexes(collection, q) :
                    LET r == FindOne(collection', ("_id" :> collection[i]["_id"]))
                    IN  /\ "_id" \in DOMAIN r
                        /\ \A f \in DOMAIN s : f \in DOMAIN r /\ r[f] = s[f]]_vars

C2_Witness ==
    /\ call.op = "update_document"
    /\ out.kind = "modified_count"
    /\ out.modified_count = 1
    /\ Len(collection) >= 2

\* The example sequence, read off main: after the insert of John the find-one
\* by name returns the inserted document; after the update a find-one by name
\* shows address Canyon 123; after the delete a find-one by name finds nothing.
EndToEnd ==
    /\ pc = "find_all" =>
        /\ out.result = collection[Len(coll0) + 1]
        /\ IsStored(out.result, JohnDoc, out.result["_id"])
    /\ pc = "delete" =>
        /\ "address" \in DOMAIN FindOne(collection, JohnQuery)
        /\ FindOne(collection, JohnQuery)["address"] = "Canyon 123"
    /\ pc = "limit" => FindOne(collection, JohnQuery) = None

\* C3 as stated: the example sequence holds whatever the collection held
\* before.
C3_EndToEndAnyCollection == EndToEnd

\* C3 as amended: the example sequence holds when the collection holds no
\* document named John before it starts.
C3_EndToEndNoPriorJohn == MatchCount(coll0, JohnQuery) = 0 => EndToEnd

C3_Witness ==
    /\ pc = "limit"
    /\ MatchCount(coll0, JohnQuery) = 0
    /\ Len(coll0) > 0
    /\ call.op = "delete_document"
    /\ out.deleted_count = 1

\* C4: after a successful insert_single_document(d), a find-one on the
\* identifier assigned to d returns the inserted document: the fields and
\* values of d and that identifier.
C4_InsertThenFindById ==
    (call.op = "insert_single_document" /\ out.kind = "inserted_id") =>
        LET r == FindOne(collection, ("_id" :> out.inserted_id))
        IN  "_id" \in DOMAIN r /\ IsStored(r, call.data, out.inserted_id)

C4_Witness ==
    /\ call.op = "insert_single_document"
    /\ out.kind = "inserted_id"
    /\ Len(collection) >= 2

\* C5: insert_multiple_documents with N documents reports exactly N
\* identifiers, the i-th being the identifier of the i-th input document, and
\* the documents are added at the end of the collection in the given order.
C5_InsertManyIdsInOrder ==
    (call.op = "insert_multiple_documents" /\ out.kind = "inserted_ids") =>
        LET b == call.data_list
            base == Len(collection) - Len(b)
        IN  /\ Len(out.inserted_ids) = Len(b)
            /\ base >= 0
            /\ \A i \in 1..Len(b) : IsStored(collection[base + i], b[i], out.inserted_ids[i])

C5_Witness ==
    /\ call.op = "insert_multiple_documents"
    /\ out.kind = "inserted_ids"
    /\ Len(call.data_list) = 2
    /\ Len(collection) = 3

\* C6: sort_documents_by_field(field, order) outputs every document of the
\* collection exactly once, with the field's values non-decreasing when order
\* is 1 and non-increasing when order is -1.
C6_SortedOutput ==
    call.op = "sort_documents_by_field" =>
        LET res == out.docs
            key(d) == SortKey(d, call.field_name)
        IN  /\ Len(res) = Len(collection)
            /\ \A i \in 1..Len(collection) :
                Cardinality({j \in 1..Len(res) : res[j] = collection[i]}) = 1
            /\ \A i, j \in 1..Len(res) :
                i < j => IF call.order = 1
                         THEN ~KeyLess(key(res[j]), key(res[i]))
                         ELSE ~KeyLess(key(res[i]), key(res[j]))

C6_Witness ==
    /\ call.op = "sort_documents_by_field"
    /\ call.order = -1
    /\ Len(out.docs) = 3
    /\ out.docs # collection
    /\ KeyLess(SortKey(out.docs[3], call.field_name), SortKey(out.docs[1], call.field_name))

\* C7: limit_results(n) outputs the first min(n, collection size) documents,
\* for every n >= 0, n = 0 included.
C7_LimitIsMin ==
    (call.op = "limit_results" /\ call.limit >= 0) =>
        /\ Len(out.docs) = Min(call.limit, Len(collection))
        /\ out.docs = SubSeq(collection, 1, Len(out.docs))

\* C8: update_document changes at most one document: every document other
\* than the first match, the other matches included, is left as it was, and
\* the number of documents does not change.
C8_UpdateAtMostOne ==
    [][call'.op = "update_document" =>
        /\ Len(collection') = Len(collection)
        /\ \A i \in 1..Len(collection) :
            (\/ ~Matches(collection[i], call'.query)
             \/ \E j \in 1..(i - 1) : Matches(collection[j], call'.query))
                => collection'[i] = collection[i]]_vars

C8_Witness ==
    /\ call.op = "update_document"
    /\ out.kind = "modified_count"
    /\ out.modified_count = 1
    /\ MatchCount(collection, call.query) >= 2

\* C9: with the endpoint unreachable, building the handle succeeds, the first
\* check_database_exists of main raises, nothing catches it, no later statement
\* runs and the collection is as it was at process start.
C9_LazyFailure ==
    ~up =>
        /\ pc \in {"connect", "check_db_1", "aborted"}
        /\ collection = coll0
        /\ pc = "check_db_1" => out.kind = "handle"
        /\ pc = "aborted" =>
            /\ call.op = "check_database_exists"
            /\ out = Raise("ServerSelectionTimeoutError")

C9_Witness ==
    /\ ~up
    /\ pc = "aborted"
    /\ call.op = "check_database_exists"
    /\ Len(collection) > 0

\* C10: a complete run of main started on k documents ends on k + 12: 13 are
\* inserted, the update changes no count, the delete removes one document
\* named John; each run adds one more copy of each of the 12 batch documents
\* and leaves the number of documents named John as it was.
C10_RunAddsTwelve ==
    /\ pc \in {"find_one", "delete"} => Len(collection) = Len(coll0) + 13
    /\ pc = "limit" =>
        /\ out.deleted_count = 1
        /\ MatchCount(collection, JohnQuery) = MatchCount(coll0, JohnQuery)
    /\ pc = "done" =>
        /\ Len(collection) = Len(coll0) + 12
        /\ MatchCount(collection, JohnQuery) = MatchCount(coll0, JohnQuery)
        /\ \A i \in 1..Len(BatchDocs) :
            MatchCount(collection, BatchDocs[i]) = MatchCount(coll0, BatchDocs[i]) + 1

C10_Witness ==
    /\ pc = "done"
    /\ runs = 2
    /\ Len(coll0) >= 12
    /\ MatchCount(coll0, JohnQuery) = 2

====
